---- MODULE Spec2Model ----
(***************************************************************************)
(* Model of src/app.py: the /get_details aggregation handler, its upstream *)
(* client safe_api_call and the text formatter wrap_text / format_entry.   *)
(*                                                                         *)
(* Strings are run-length encoded: a string is a sequence of runs          *)
(* [c |-> character, n |-> repetitions] in which adjacent runs carry       *)
(* different characters, so every string has exactly one encoding and      *)
(* len() is the sum of the repetitions.                                    *)
(***************************************************************************)
EXTENDS Integers, Sequences, FiniteSets, TLC

VARIABLES
    text, wrapped, wpc,                 \* one call of wrap_text
    url, error_message, outcome, ret, cpc,   \* one call of safe_api_call
    pc, number, all_results, found_aadhar_numbers, aadhar_order, todo,
    calls, response                     \* one request to /get_details

wvars == <<text, wrapped, wpc>>

cvars == <<url, error_message, outcome, ret, cpc>>

hvars == <<pc, number, all_results, found_aadhar_numbers, aadhar_order, todo,
           calls, response>>

vars == <<text, wrapped, wpc, url, error_message, outcome, ret, cpc,
          pc, number, all_results, found_aadhar_numbers, aadhar_order, todo,
          calls, response>>

---------------------------------------------------------------------------
(* Strings *)

Run(c, n) == [c |-> c, n |-> n]

Rep(c, n) == <<Run(c, n)>>

\* characters str.split() with no argument treats as separators: the 29
\* characters for which str.isspace() is true.  "U+xxxx" stands for the
\* character with that code point.
Whitespace ==
    {"\t", "\n", "U+000B", "\f", "\r", "U+001C", "U+001D", "U+001E", "U+001F",
     " ", "U+0085", "U+00A0", "U+1680", "U+2000", "U+2001", "U+2002", "U+2003",
     "U+2004", "U+2005", "U+2006", "U+2007", "U+2008", "U+2009", "U+200A",
     "U+2028", "U+2029", "U+202F", "U+205F", "U+3000"}

RECURSIVE StrLen(_)
StrLen(s) == IF s = <<>> THEN 0 ELSE s[1].n + StrLen(Tail(s))

\* s + t
Concat(s, t) ==
    IF s = <<>> THEN t
    ELSE IF t = <<>> THEN s
    ELSE IF s[Len(s)].c = t[1].c
         THEN SubSeq(s, 1, Len(s) - 1)
                \o <<Run(t[1].c, s[Len(s)].n + t[1].n)>>
                \o Tail(t)
         ELSE s \o t

\* sep.join(parts)
RECURSIVE Join(_, _)
Join(sep, parts) ==
    IF parts = <<>> THEN <<>>
    ELSE IF Len(parts) = 1 THEN parts[1]
    ELSE Concat(parts[1], Concat(sep, Join(sep, Tail(parts))))

\* text.split(): the maximal runs of non-whitespace characters, in order
RECURSIVE SplitFrom(_, _, _, _)
SplitFrom(s, i, cur, acc) ==
    IF i > Len(s)
    THEN IF cur = <<>> THEN acc ELSE Append(acc, cur)
    ELSE IF s[i].c \in Whitespace
         THEN SplitFrom(s, i + 1, <<>>,
                        IF cur = <<>> THEN acc ELSE Append(acc, cur))
         ELSE SplitFrom(s, i + 1, Append(cur, s[i]), acc)

Split(s) == SplitFrom(s, 1, <<>>, <<>>)

---------------------------------------------------------------------------
(* wrap_text *)

max_length == 50

\* line 23: the word is taken onto the current line
FitsNoSeparator(current_length, word, limit) ==
    current_length + StrLen(word) <= limit

Fits(current_length, word, limit) ==
    current_length + StrLen(word) + 1 <= limit

\* lines 27-28: a non-empty current line is closed before a new one starts
CloseLine(lines, current_line) ==
    IF current_line # <<>>
    THEN Append(lines, Join(Rep(" ", 1), current_line))
    ELSE lines

\* lines 32-33: the last line is closed after the loop
FlushDropped(lines, current_line) == lines

Flush(lines, current_line) ==
    IF current_line # <<>>
    THEN Append(lines, Join(Rep(" ", 1), current_line))
    ELSE lines

\* lines 22-33: the loop over words, then the final flush
RECURSIVE WrapLoop(_, _, _, _, _, _)
WrapLoop(words, i, lines, current_line, current_length, limit) ==
    IF i > Len(words)
    THEN Flush(lines, current_line)
    ELSE IF Fits(current_length, words[i], limit)
         THEN WrapLoop(words, i + 1, lines,
                       Append(current_line, words[i]),
                       current_length + StrLen(words[i]) + 1, limit)
         ELSE WrapLoop(words, i + 1,
                       CloseLine(lines, current_line),
                       <<words[i]>>, StrLen(words[i]), limit)

\* the list `lines` wrap_text has built when it reaches line 35
WrapLines(s, limit) == WrapLoop(Split(s), 1, <<>>, <<>>, 0, limit)

wrap_text(s, limit) ==
    IF s = <<>> \/ StrLen(s) <= limit
    THEN s
    ELSE Join(Rep("\n", 1), WrapLines(s, limit))

---------------------------------------------------------------------------
(* JSON values, as Python sees them after response.json().  Every value is  *)
(* a record of one shape; the field t tells which of the others is read:    *)
(*   "null"  None                                                           *)
(*   "str"   s, a run-length encoded string; or lit, one of the program's   *)
(*           own message literals, which the program never measures         *)
(*   "int"   neg and mag, the sign and the decimal digits (runs of 0..9)    *)
(*   "list"  items                                                          *)
(*   "dict"  keys and items, in insertion order                             *)
(* Booleans and floats are left out: as an id their string form is never   *)
(* twelve digits, and format_entry passes them through.                     *)

JBase(t) ==
    [t |-> t, lit |-> "", s |-> <<>>, neg |-> FALSE, mag |-> <<>>,
     keys |-> <<>>, items |-> <<>>]

JNull == JBase("null")

JStr(s) == [JBase("str") EXCEPT !.s = s]

JLit(lit) == [JBase("str") EXCEPT !.lit = lit]

JInt(neg, mag) == [JBase("int") EXCEPT !.neg = neg, !.mag = mag]

JList(items) == [JBase("list") EXCEPT !.items = items]

JDict(keys, items) == [JBase("dict") EXCEPT !.keys = keys, !.items = items]

\* key in d
HasKey(d, k) == \E i \in 1..Len(d.keys) : d.keys[i] = k

\* d[key]
Get(d, k) == d.items[CHOOSE i \in 1..Len(d.keys) : d.keys[i] = k]

\* d[key] = v
DictSet(d, k, v) ==
    IF HasKey(d, k)
    THEN [d EXCEPT !.items[CHOOSE i \in 1..Len(d.keys) : d.keys[i] = k] = v]
    ELSE [d EXCEPT !.keys = Append(d.keys, k), !.items = Append(d.items, v)]

\* {**d, **e}
RECURSIVE DictMerge(_, _)
DictMerge(d, e) ==
    IF e.keys = <<>> THEN d
    ELSE DictMerge(DictSet(d, e.keys[1], e.items[1]),
                   [e EXCEPT !.keys = Tail(e.keys), !.items = Tail(e.items)])

\* str(v) for an int: the digits, after a minus sign when negative
DigitChar == <<"0", "1", "2", "3", "4", "5", "6", "7", "8", "9">>

IntStr(v) ==
    Concat(IF v.neg THEN Rep("-", 1) ELSE <<>>,
           [i \in 1..Len(v.mag) |-> Run(DigitChar[v.mag[i].c + 1], v.mag[i].n)])

\* str(v) for a str or an int
StrOf(v) == IF v.t = "str" THEN v.s ELSE IntStr(v)

\* The characters '0'..'9'.
AsciiDigits == {"0", "1", "2", "3", "4", "5", "6", "7", "8", "9"}

\* The other characters for which str.isdecimal() is true (Unicode category
\* Nd), by code point.
OtherDecimalDigits ==
    {"U+0660", "U+0661", "U+0662", "U+0663", "U+0664", "U+0665", "U+0666",
     "U+0667", "U+0668", "U+0669", "U+06F0", "U+06F1", "U+06F2", "U+06F3",
     "U+06F4", "U+06F5", "U+06F6", "U+06F7", "U+06F8", "U+06F9", "U+07C0",
     "U+07C1", "U+07C2", "U+07C3", "U+07C4", "U+07C5", "U+07C6", "U+07C7",
     "U+07C8", "U+07C9", "U+0966", "U+0967", "U+0968", "U+0969", "U+096A",
     "U+096B", "U+096C", "U+096D", "U+096E", "U+096F", "U+09E6", "U+09E7",
     "U+09E8", "U+09E9", "U+09EA", "U+09EB", "U+09EC", "U+09ED", "U+09EE",
     "U+09EF", "U+0A66", "U+0A67", "U+0A68", "U+0A69", "U+0A6A", "U+0A6B",
     "U+0A6C", "U+0A6D", "U+0A6E", "U+0A6F", "U+0AE6", "U+0AE7", "U+0AE8",
     "U+0AE9", "U+0AEA", "U+0AEB", "U+0AEC", "U+0AED", "U+0AEE", "U+0AEF",
     "U+0B66", "U+0B67", "U+0B68", "U+0B69", "U+0B6A", "U+0B6B", "U+0B6C",
     "U+0B6D", "U+0B6E", "U+0B6F", "U+0BE6", "U+0BE7", "U+0BE8", "U+0BE9",
     "U+0BEA", "U+0BEB", "U+0BEC", "U+0BED", "U+0BEE", "U+0BEF", "U+0C66",
     "U+0C67", "U+0C68", "U+0C69", "U+0C6A", "U+0C6B", "U+0C6C", "U+0C6D",
     "U+0C6E", "U+0C6F", "U+0CE6", "U+0CE7", "U+0CE8", "U+0CE9", "U+0CEA",
     "U+0CEB", "U+0CEC", "U+0CED", "U+0CEE", "U+0CEF", "U+0D66", "U+0D67",
     "U+0D68", "U+0D69", "U+0D6A", "U+0D6B", "U+0D6C", "U+0D6D", "U+0D6E",
     "U+0D6F", "U+0DE6", "U+0DE7", "U+0DE8", "U+0DE9", "U+0DEA", "U+0DEB",
     "U+0DEC", "U+0DED", "U+0DEE", "U+0DEF", "U+0E50", "U+0E51", "U+0E52",
     "U+0E53", "U+0E54", "U+0E55", "U+0E56", "U+0E57", "U+0E58", "U+0E59",
     "U+0ED0", "U+0ED1", "U+0ED2", "U+0ED3", "U+0ED4", "U+0ED5", "U+0ED6",
     "U+0ED7", "U+0ED8", "U+0ED9", "U+0F20", "U+0F21", "U+0F22", "U+0F23",
     "U+0F24", "U+0F25", "U+0F26", "U+0F27", "U+0F28", "U+0F29", "U+1040",
     "U+1041", "U+1042", "U+1043", "U+1044", "U+1045", "U+1046", "U+1047",
     "U+1048", "U+1049", "U+1090", "U+1091", "U+1092", "U+1093", "U+1094",
     "U+1095", "U+1096", "U+1097", "U+1098", "U+1099", "U+17E0", "U+17E1",
     "U+17E2", "U+17E3", "U+17E4", "U+17E5", "U+17E6", "U+17E7", "U+17E8",
     "U+17E9", "U+1810", "U+1811", "U+1812", "U+1813", "U+1814", "U+1815",
     "U+1816", "U+1817", "U+1818", "U+1819", "U+1946", "U+1947", "U+1948",
     "U+1949", "U+194A", "U+194B", "U+194C", "U+194D", "U+194E", "U+194F",
     "U+19D0", "U+19D1", "U+19D2", "U+19D3", "U+19D4", "U+19D5", "U+19D6",
     "U+19D7", "U+19D8", "U+19D9", "U+1A80", "U+1A81", "U+1A82", "U+1A83",
     "U+1A84", "U+1A85", "U+1A86", "U+1A87", "U+1A88", "U+1A89", "U+1A90",
     "U+1A91", "U+1A92", "U+1A93", "U+1A94", "U+1A95", "U+1A96", "U+1A97",
     "U+1A98", "U+1A99", "U+1B50", "U+1B51", "U+1B52", "U+1B53", "U+1B54",
     "U+1B55", "U+1B56", "U+1B57", "U+1B58", "U+1B59", "U+1BB0", "U+1BB1",
     "U+1BB2", "U+1BB3", "U+1BB4", "U+1BB5", "U+1BB6", "U+1BB7", "U+1BB8",
     "U+1BB9", "U+1C40", "U+1C41", "U+1C42", "U+1C43", "U+1C44", "U+1C45",
     "U+1C46", "U+1C47", "U+1C48", "U+1C49", "U+1C50", "U+1C51", "U+1C52",
     "U+1C53", "U+1C54", "U+1C55", "U+1C56", "U+1C57", "U+1C58", "U+1C59",
     "U+A620", "U+A621", "U+A622", "U+A623", "U+A624", "U+A625", "U+A626",
     "U+A627", "U+A628", "U+A629", "U+A8D0", "U+A8D1", "U+A8D2", "U+A8D3",
     "U+A8D4", "U+A8D5", "U+A8D6", "U+A8D7", "U+A8D8", "U+A8D9", "U+A900",
     "U+A901", "U+A902", "U+A903", "U+A904", "U+A905", "U+A906", "U+A907",
     "U+A908", "U+A909", "U+A9D0", "U+A9D1", "U+A9D2", "U+A9D3", "U+A9D4",
     "U+A9D5", "U+A9D6", "U+A9D7", "U+A9D8", "U+A9D9", "U+A9F0", "U+A9F1",
     "U+A9F2", "U+A9F3", "U+A9F4", "U+A9F5", "U+A9F6", "U+A9F7", "U+A9F8",
     "U+A9F9", "U+AA50", "U+AA51", "U+AA52", "U+AA53", "U+AA54", "U+AA55",
     "U+AA56", "U+AA57", "U+AA58", "U+AA59", "U+ABF0", "U+ABF1", "U+ABF2",
     "U+ABF3", "U+ABF4", "U+ABF5", "U+ABF6", "U+ABF7", "U+ABF8", "U+ABF9",
     "U+FF10", "U+FF11", "U+FF12", "U+FF13", "U+FF14", "U+FF15", "U+FF16",
     "U+FF17", "U+FF18", "U+FF19", "U+104A0", "U+104A1", "U+104A2",
     "U+104A3", "U+104A4", "U+104A5", "U+104A6", "U+104A7", "U+104A8",
     "U+104A9", "U+10D30", "U+10D31", "U+10D32", "U+10D33", "U+10D34",
     "U+10D35", "U+10D36", "U+10D37", "U+10D38", "U+10D39", "U+11066",
     "U+11067", "U+11068", "U+11069", "U+1106A", "U+1106B", "U+1106C",
     "U+1106D", "U+1106E", "U+1106F", "U+110F0", "U+110F1", "U+110F2",
     "U+110F3", "U+110F4", "U+110F5", "U+110F6", "U+110F7", "U+110F8",
     "U+110F9", "U+11136", "U+11137", "U+11138", "U+11139", "U+1113A",
     "U+1113B", "U+1113C", "U+1113D", "U+1113E", "U+1113F", "U+111D0",
     "U+111D1", "U+111D2", "U+111D3", "U+111D4", "U+111D5", "U+111D6",
     "U+111D7", "U+111D8", "U+111D9", "U+112F0", "U+112F1", "U+112F2",
     "U+112F3", "U+112F4", "U+112F5", "U+112F6", "U+112F7", "U+112F8",
     "U+112F9", "U+11450", "U+11451", "U+11452", "U+11453", "U+11454",
     "U+11455", "U+11456", "U+11457", "U+11458", "U+11459", "U+114D0",
     "U+114D1", "U+114D2", "U+114D3", "U+114D4", "U+114D5", "U+114D6",
     "U+114D7", "U+114D8", "U+114D9", "U+11650", "U+11651", "U+11652",
     "U+11653", "U+11654", "U+11655", "U+11656", "U+11657", "U+11658",
     "U+11659", "U+116C0", "U+116C1", "U+116C2", "U+116C3", "U+116C4",
     "U+116C5", "U+116C6", "U+116C7", "U+116C8", "U+116C9", "U+11730",
     "U+11731", "U+11732", "U+11733", "U+11734", "U+11735", "U+11736",
     "U+11737", "U+11738", "U+11739", "U+118E0", "U+118E1", "U+118E2",
     "U+118E3", "U+118E4", "U+118E5", "U+118E6", "U+118E7", "U+118E8",
     "U+118E9", "U+11950", "U+11951", "U+11952", "U+11953", "U+11954",
     "U+11955", "U+11956", "U+11957", "U+11958", "U+11959", "U+11C50",
     "U+11C51", "U+11C52", "U+11C53", "U+11C54", "U+11C55", "U+11C56",
     "U+11C57", "U+11C58", "U+11C59", "U+11D50", "U+11D51", "U+11D52",
     "U+11D53", "U+11D54", "U+11D55", "U+11D56", "U+11D57", "U+11D58",
     "U+11D59", "U+11DA0", "U+11DA1", "U+11DA2", "U+11DA3", "U+11DA4",
     "U+11DA5", "U+11DA6", "U+11DA7", "U+11DA8", "U+11DA9", "U+16A60",
     "U+16A61", "U+16A62", "U+16A63", "U+16A64", "U+16A65", "U+16A66",
     "U+16A67", "U+16A68", "U+16A69", "U+16AC0", "U+16AC1", "U+16AC2",
     "U+16AC3", "U+16AC4", "U+16AC5", "U+16AC6", "U+16AC7", "U+16AC8",
     "U+16AC9", "U+16B50", "U+16B51", "U+16B52", "U+16B53", "U+16B54",
     "U+16B55", "U+16B56", "U+16B57", "U+16B58", "U+16B59", "U+1D7CE",
     "U+1D7CF", "U+1D7D0", "U+1D7D1", "U+1D7D2", "U+1D7D3", "U+1D7D4",
     "U+1D7D5", "U+1D7D6", "U+1D7D7", "U+1D7D8", "U+1D7D9", "U+1D7DA",
     "U+1D7DB", "U+1D7DC", "U+1D7DD", "U+1D7DE", "U+1D7DF", "U+1D7E0",
     "U+1D7E1", "U+1D7E2", "U+1D7E3", "U+1D7E4", "U+1D7E5", "U+1D7E6",
     "U+1D7E7", "U+1D7E8", "U+1D7E9", "U+1D7EA", "U+1D7EB", "U+1D7EC",
     "U+1D7ED", "U+1D7EE", "U+1D7EF", "U+1D7F0", "U+1D7F1", "U+1D7F2",
     "U+1D7F3", "U+1D7F4", "U+1D7F5", "U+1D7F6", "U+1D7F7", "U+1D7F8",
     "U+1D7F9", "U+1D7FA", "U+1D7FB", "U+1D7FC", "U+1D7FD", "U+1D7FE",
     "U+1D7FF", "U+1E140", "U+1E141", "U+1E142", "U+1E143", "U+1E144",
     "U+1E145", "U+1E146", "U+1E147", "U+1E148", "U+1E149", "U+1E2F0",
     "U+1E2F1", "U+1E2F2", "U+1E2F3", "U+1E2F4", "U+1E2F5", "U+1E2F6",
     "U+1E2F7", "U+1E2F8", "U+1E2F9", "U+1E950", "U+1E951", "U+1E952",
     "U+1E953", "U+1E954", "U+1E955", "U+1E956", "U+1E957", "U+1E958",
     "U+1E959", "U+1FBF0", "U+1FBF1", "U+1FBF2", "U+1FBF3", "U+1FBF4",
     "U+1FBF5", "U+1FBF6", "U+1FBF7", "U+1FBF8", "U+1FBF9"}

\* The characters for which str.isdigit() is true and str.isdecimal() is
\* not (Numeric_Type Digit: superscripts, subscripts, circled digits ...).
NonDecimalDigits ==
    {"U+00B2", "U+00B3", "U+00B9", "U+1369", "U+136A", "U+136B", "U+136C",
     "U+136D", "U+136E", "U+136F", "U+1370", "U+1371", "U+19DA", "U+2070",
     "U+2074", "U+2075", "U+2076", "U+2077", "U+2078", "U+2079", "U+2080",
     "U+2081", "U+2082", "U+2083", "U+2084", "U+2085", "U+2086", "U+2087",
     "U+2088", "U+2089", "U+2460", "U+2461", "U+2462", "U+2463", "U+2464",
     "U+2465", "U+2466", "U+2467", "U+2468", "U+2474", "U+2475", "U+2476",
     "U+2477", "U+2478", "U+2479", "U+247A", "U+247B", "U+247C", "U+2488",
     "U+2489", "U+248A", "U+248B", "U+248C", "U+248D", "U+248E", "U+248F",
     "U+2490", "U+24EA", "U+24F5", "U+24F6", "U+24F7", "U+24F8", "U+24F9",
     "U+24FA", "U+24FB", "U+24FC", "U+24FD", "U+24FF", "U+2776", "U+2777",
     "U+2778", "U+2779", "U+277A", "U+277B", "U+277C", "U+277D", "U+277E",
     "U+2780", "U+2781", "U+2782", "U+2783", "U+2784", "U+2785", "U+2786",
     "U+2787", "U+2788", "U+278A", "U+278B", "U+278C", "U+278D", "U+278E",
     "U+278F", "U+2790", "U+2791", "U+2792", "U+10A40", "U+10A41",
     "U+10A42", "U+10A43", "U+10E60", "U+10E61", "U+10E62", "U+10E63",
     "U+10E64", "U+10E65", "U+10E66", "U+10E67", "U+10E68", "U+11052",
     "U+11053", "U+11054", "U+11055", "U+11056", "U+11057", "U+11058",
     "U+11059", "U+1105A", "U+1F100", "U+1F101", "U+1F102", "U+1F103",
     "U+1F104", "U+1F105", "U+1F106", "U+1F107", "U+1F108", "U+1F109",
     "U+1F10A"}

\* str.isdigit(): non-empty, every character a digit, where Python counts
\* the characters of Numeric_Type Digit as well as the decimal ones.
DigitChars == AsciiDigits \cup OtherDecimalDigits \cup NonDecimalDigits

isdigit(s) == s # <<>> /\ \A i \in 1..Len(s) : s[i].c \in DigitChars

---------------------------------------------------------------------------
(* format_entry *)

\* lines 41-44: one value of the entry
\* (the program's own message literals are all shorter than 50 characters)
FormatValue(value) ==
    IF value.t = "str" /\ value.lit = "" /\ StrLen(value.s) > 50
    THEN JStr(wrap_text(value.s, max_length))
    ELSE value

\* entry.items() exists only on a mapping: anything else raises AttributeError
FormatEntryRaises(entry) == entry.t # "dict"

format_entry(entry) ==
    [entry EXCEPT !.items = [i \in 1..Len(entry.items) |->
                                FormatValue(entry.items[i])]]

---------------------------------------------------------------------------
(* safe_api_call *)

MOBILE_INFO_API_BASE == "https://random-remove-batch-tea.trycloudflare.com/search?mobile="

AADHAR_INFO_API_BASE == "https://random-remove-batch-tea.trycloudflare.com/search?aadhar="

AADHAR_FAMILY_API_BASE == "https://family-tau-three.vercel.app/fetch?key=taitaninfo&aadhaar="

\* f"{BASE}{value}"
Url(base, value) == [base |-> base, arg |-> value]

\* What requests.get / raise_for_status / response.json() did, as the class
\* of the exception raised ("none": a 2xx answer whose body parsed).
\* The classes of requests.exceptions, each with those of its ancestors that
\* are classes of requests.exceptions, Exception or BaseException.
\* "json.JSONDecodeError" is the json module's own class, a ValueError.
RequestClasses(exc) ==
    CASE exc = "RequestException"       -> {}
      [] exc = "InvalidJSONError"       -> {}
      [] exc = "JSONDecodeError"        -> {"InvalidJSONError"}
      [] exc = "HTTPError"              -> {}
      [] exc = "ConnectionError"        -> {}
      [] exc = "ProxyError"             -> {"ConnectionError"}
      [] exc = "SSLError"               -> {"ConnectionError"}
      [] exc = "Timeout"                -> {}
      [] exc = "ConnectTimeout"         -> {"ConnectionError", "Timeout"}
      [] exc = "ReadTimeout"            -> {"Timeout"}
      [] exc = "URLRequired"            -> {}
      [] exc = "TooManyRedirects"       -> {}
      [] exc = "MissingSchema"          -> {}
      [] exc = "InvalidSchema"          -> {}
      [] exc = "InvalidURL"             -> {}
      [] exc = "InvalidProxyURL"        -> {"InvalidURL"}
      [] exc = "InvalidHeader"          -> {}
      [] exc = "ChunkedEncodingError"   -> {}
      [] exc = "ContentDecodingError"   -> {}
      [] exc = "StreamConsumedError"    -> {}
      [] exc = "RetryError"             -> {}
      [] exc = "UnrewindableBodyError"  -> {}

RequestExceptions ==
    {"RequestException", "InvalidJSONError", "JSONDecodeError", "HTTPError",
     "ConnectionError", "ProxyError", "SSLError", "Timeout", "ConnectTimeout",
     "ReadTimeout", "URLRequired", "TooManyRedirects", "MissingSchema",
     "InvalidSchema", "InvalidURL", "InvalidProxyURL", "InvalidHeader",
     "ChunkedEncodingError", "ContentDecodingError", "StreamConsumedError",
     "RetryError", "UnrewindableBodyError"}

\* the built-in exceptions that derive from BaseException directly
NotExceptions ==
    {"BaseException", "KeyboardInterrupt", "SystemExit", "GeneratorExit",
     "CancelledError", "BaseExceptionGroup"}

\* every other class (KeyError, RuntimeError, json.JSONDecodeError, ...) is
\* an Exception outside requests.exceptions
Ancestors(exc) ==
    IF exc = "none" THEN {}
    ELSE IF exc \in RequestExceptions
    THEN {exc, "RequestException", "Exception", "BaseException"}
            \cup RequestClasses(exc)
    ELSE IF exc \in NotExceptions THEN {exc, "BaseException"}
    ELSE {exc, "Exception", "BaseException"}

IsInstance(exc, class) == class \in Ancestors(exc)

ErrorObject(message) == JDict(<<"error">>, <<JLit(message)>>)

\* lines 59-64: the message for an upstream status
StatusMessageSwapped(status_code, message) ==
    IF status_code = 422 THEN "Data not found"
    ELSE IF status_code = 404 THEN "Invalid input provided"
    ELSE message

StatusMessage(status_code, message) ==
    IF status_code = 404 THEN "Data not found"
    ELSE IF status_code = 422 THEN "Invalid input provided"
    ELSE message

\* what safe_api_call hands back: (data, error), or the exception that
\* left it ("none" when it returned)
Returned(data, error) == [data |-> data, error |-> error, raised |-> "none"]

Raised(exc) == [data |-> JNull, error |-> JNull, raised |-> exc]

\* lines 49-68; o is the outcome of the call: [cause, exc, status_code, body]
safe_api_call(u, message, o) ==
    IF o.exc = "none"
    THEN Returned(o.body, JNull)
    ELSE IF IsInstance(o.exc, "Timeout")
    THEN Returned(JNull, ErrorObject("Request timeout - please try again"))
    ELSE IF IsInstance(o.exc, "ConnectionError")
    THEN Returned(JNull, ErrorObject("Connection failed - service unavailable"))
    ELSE IF IsInstance(o.exc, "HTTPError")
    THEN Returned(JNull, ErrorObject(StatusMessage(o.status_code, message)))
    ELSE IF IsInstance(o.exc, "RequestException")
    THEN Returned(JNull, ErrorObject(message))
    ELSE IF IsInstance(o.exc, "Exception")
    THEN Returned(JNull, ErrorObject("An unexpected error occurred"))
    ELSE Raised(o.exc)

\* `if error:` - the error object is a non-empty dict, None is falsy
Truthy(v) ==
    CASE v.t = "null" -> FALSE
      [] v.t = "str"  -> v.s # <<>> \/ v.lit # ""
      [] v.t = "int"  -> \E i \in 1..Len(v.mag) : v.mag[i].c # 0
      [] v.t = "list" -> v.items # <<>>
      [] v.t = "dict" -> v.keys # <<>>
      [] OTHER        -> FALSE

---------------------------------------------------------------------------
(* get_details: the steps of one request *)

\* lines 74 and 78: None when a check passed, else the message of the 400
ValidationError(mobile_number) ==
    IF ~Truthy(mobile_number) THEN JLit("Mobile number is required")
    ELSE IF ~isdigit(mobile_number.s) \/ StrLen(mobile_number.s) < 10
         THEN JLit("Invalid mobile number format")
         ELSE JNull

\* lines 92-96
DataList(mobile_data) ==
    IF mobile_data.t = "dict" /\ HasKey(mobile_data, "data")
    THEN Get(mobile_data, "data")
    ELSE IF mobile_data.t = "list" THEN mobile_data ELSE JNull

\* line 98: `data_list and isinstance(data_list, list)`
UsableListAnyLength(data_list) == data_list.t = "list"

UsableList(data_list) == Truthy(data_list) /\ data_list.t = "list"

\* lines 100, 127: [format_entry(entry) for entry in data]
FormatAll(items) == [i \in 1..Len(items) |-> format_entry(items[i])]

AnyRaises(items) == \E i \in 1..Len(items) : FormatEntryRaises(items[i])

\* line 107
IsAadhar(potential_aadhar) ==
    StrLen(potential_aadhar) = 12 /\ isdigit(potential_aadhar)

\* lines 104-108; every entry is a mapping here, line 100 raised otherwise
ExtractAadhar(items) ==
    {StrOf(Get(items[i], "id")) : i \in
        {j \in 1..Len(items) :
            /\ items[j].t = "dict"
            /\ HasKey(items[j], "id")
            /\ Get(items[j], "id").t \in {"int", "str"}
            /\ IsAadhar(StrOf(Get(items[j], "id")))}}

\* lines 113-114 and 137-138
AadhaarSectionAlwaysList(found) == JList(<<>>)

AadhaarSection(found) ==
    IF found # {} THEN JList(<<>>)
    ELSE JDict(<<"status">>, <<JLit("No valid Aadhaar numbers found")>>)

\* lines 141-142 and 169-170
FamilySection(found) ==
    IF found # {} THEN JList(<<>>)
    ELSE JDict(<<"status">>, <<JLit("No family info available")>>)

\* lines 126-131
PersonalRaises(aadhar_data) ==
    aadhar_data.t = "list" /\ AnyRaises(aadhar_data.items)

FormatPersonal(aadhar_data) ==
    IF aadhar_data.t = "list" THEN JList(FormatAll(aadhar_data.items))
    ELSE IF aadhar_data.t = "dict" THEN format_entry(aadhar_data)
    ELSE aadhar_data

\* lines 119-136: the entry appended for one identifier
AadhaarEntryUntagged(aadhar_num, r) ==
    IF Truthy(r.error) THEN r.error
    ELSE JDict(<<"aadhaar_number", "details">>,
               <<JStr(aadhar_num), FormatPersonal(r.data)>>)

AadhaarEntry(aadhar_num, r) ==
    IF Truthy(r.error)
    THEN DictMerge(JDict(<<"aadhaar_number">>, <<JStr(aadhar_num)>>), r.error)
    ELSE JDict(<<"aadhaar_number", "details">>,
               <<JStr(aadhar_num), FormatPersonal(r.data)>>)

\* lines 158-163: one field of the family mapping
FormatFamilyValue(value) ==
    IF value.t = "list"
    THEN JList([i \in 1..Len(value.items) |->
                  IF value.items[i].t = "dict"
                  THEN format_entry(value.items[i])
                  ELSE value.items[i]])
    ELSE IF value.t = "dict" THEN format_entry(value)
    ELSE value

\* lines 154-163
FormatFamily(family_data) ==
    IF family_data.t = "dict"
    THEN [family_data EXCEPT !.items =
            [i \in 1..Len(family_data.items) |->
                FormatFamilyValue(family_data.items[i])]]
    ELSE family_data

\* lines 147-168: the entry appended for one identifier
FamilyEntry(aadhar_num, r) ==
    IF Truthy(r.error)
    THEN DictMerge(JDict(<<"aadhaar_number">>, <<JStr(aadhar_num)>>), r.error)
    ELSE JDict(<<"aadhaar_number", "family_details">>,
               <<JStr(aadhar_num), FormatFamily(r.data)>>)

\* all_results[section].append(entry)
SectionAppend(results, section, entry) ==
    DictSet(results, section,
            JList(Append(Get(results, section).items, entry)))

\* the orders in which a for loop may walk a set
Orders(S) ==
    {q \in [1..Cardinality(S) -> S] :
        \A i, j \in 1..Cardinality(S) : i # j => q[i] # q[j]}

\* an exception leaves get_details: the framework answers 500
Unhandled == [status |-> 500, body |-> JNull]

NoResponse == [status |-> 0, body |-> JNull]

\* an exception that is no Exception leaves get_details and the framework
\* alike: the application produces no response
Interrupted == [status |-> 0, body |-> JNull]

---------------------------------------------------------------------------
(* The text formatter on its own: one call of wrap_text(text) *)

\* the parts of the state a specification leaves alone
WrapIdle == text = <<>> /\ wrapped = <<>> /\ wpc = "idle"

CallIdle ==
    /\ url = Url("", <<>>) /\ error_message = "" /\ ret = Returned(JNull, JNull)
    /\ outcome = [cause |-> "idle", exc |-> "none", status_code |-> 0, body |-> JNull]
    /\ cpc = "idle"

HandlerIdle ==
    /\ pc = "idle" /\ number = JNull /\ all_results = JDict(<<>>, <<>>)
    /\ found_aadhar_numbers = {} /\ aadhar_order = <<>> /\ todo = <<>>
    /\ calls = <<>> /\ response = NoResponse

MaxRuns == 5

WordRuns == {Run("a", 1), Run("a", 24), Run("a", 25), Run("a", 51), Run("b", 25)}

SpaceRuns == {Run(" ", 1), Run(" ", 2), Run("\n", 1), Run("\r", 1), Run("U+00A0", 1)}

Canonical(s) == \A i \in 1..(Len(s) - 1) : s[i].c # s[i + 1].c

Texts ==
    {s \in UNION {[1..n -> WordRuns \cup SpaceRuns] : n \in 0..MaxRuns} :
        Canonical(s)}

WrapInit ==
    /\ text \in Texts
    /\ wrapped = <<>>
    /\ wpc = "call"
    /\ CallIdle /\ HandlerIdle

WrapText ==
    /\ wpc = "call"
    /\ wrapped' = wrap_text(text, max_length)
    /\ wpc' = "done"
    /\ UNCHANGED <<text, cvars, hvars>>

WrapNext == WrapText

SpecWrap == WrapInit /\ [][WrapNext]_vars

---------------------------------------------------------------------------
(* Reading a formatted text back *)

\* s.split(c) for a single character c
RECURSIVE SplitOnFrom(_, _, _, _, _)
SplitOnFrom(s, c, i, cur, acc) ==
    IF i > Len(s) THEN Append(acc, cur)
    ELSE IF s[i].c = c
         THEN SplitOnFrom(s, c, i + 1, <<>>,
                          Append(acc, cur) \o [k \in 1..(s[i].n - 1) |-> <<>>])
         ELSE SplitOnFrom(s, c, i + 1, Append(cur, s[i]), acc)

LinesOf(s) == SplitOnFrom(s, "\n", 1, <<>>, <<>>)

HasChar(s, c) == \E i \in 1..Len(s) : s[i].c = c

\* C6: for a text longer than 50 characters that contains a space, every
\* line of the output of wrap_text is at most 50 characters long, unless the
\* line is one single word that is itself longer than 50 characters.
C6_LineLength ==
    (wpc = "done" /\ StrLen(text) > 50 /\ HasChar(text, " ")) =>
        \A i \in 1..Len(LinesOf(wrapped)) :
            LET line == LinesOf(wrapped)[i] IN
                \/ StrLen(line) <= 50
                \/ (Len(Split(line)) = 1 /\ Split(line)[1] = line
                        /\ StrLen(line) > 50)

C6_Witness ==
    /\ wpc = "done" /\ StrLen(text) > 50 /\ HasChar(text, " ")
    /\ Len(LinesOf(wrapped)) = 2
    /\ StrLen(LinesOf(wrapped)[2]) = 50
    /\ Len(Split(LinesOf(wrapped)[2])) = 2

\* C7: the whitespace-delimited words of the output of wrap_text, newlines
\* counting as separators, are the words of the input, in the same order.
C7_WordsPreserved ==
    wpc = "done" => Split(wrapped) = Split(text)

C7_Witness ==
    /\ wpc = "done" /\ StrLen(text) > 50
    /\ Len(Split(text)) = 3
    /\ Len(LinesOf(wrapped)) = 2
    /\ wrapped # text

\* C9: wrap_text packs greedily on every line, the first included: where
\* the output breaks a line, the next word would not have fitted on it
\* within 50 characters; and a word longer than 50 stands alone on its line.
C9_Greedy ==
    (wpc = "done" /\ StrLen(text) > 50) =>
        LET lines == LinesOf(wrapped) IN
            /\ \A i \in 1..(Len(lines) - 1) :
                   StrLen(lines[i]) + 1 + StrLen(Split(lines[i + 1])[1]) > 50
            /\ \A i \in 1..Len(lines) :
                   (\E k \in 1..Len(Split(lines[i])) :
                        StrLen(Split(lines[i])[k]) > 50)
                     => Len(Split(lines[i])) = 1

---------------------------------------------------------------------------
(* What the upstream services may answer *)

Outcome(cause, exc, status_code, body) ==
    [cause |-> cause, exc |-> exc, status_code |-> status_code, body |-> body]

Ok(body) == Outcome("ok", "none", 200, body)

\* a body that is not JSON makes response.json() raise: the JSONDecodeError
\* of requests.exceptions (a RequestException) from requests 2.27 on, the
\* json module's own JSONDecodeError (a ValueError) before.  An interrupt
\* is not an answer of the upstream: the process is told to stop during the
\* call.
Failures ==
    {Outcome("timeout", "ReadTimeout", 0, JNull),
     Outcome("timeout", "ConnectTimeout", 0, JNull),
     Outcome("connection", "ConnectionError", 0, JNull),
     Outcome("request_failure", "TooManyRedirects", 0, JNull),
     Outcome("malformed_json", "JSONDecodeError", 200, JNull),
     Outcome("connection", "SSLError", 0, JNull),
     Outcome("request_failure", "ChunkedEncodingError", 200, JNull),
     Outcome("malformed_json", "json.JSONDecodeError", 200, JNull),
     Outcome("other", "RuntimeError", 0, JNull),
     Outcome("interrupt", "KeyboardInterrupt", 0, JNull),
     Outcome("interrupt", "SystemExit", 0, JNull)}
    \cup {Outcome("http_status", "HTTPError", c, JNull) : c \in {400, 404, 422, 500}}

ShortName == Rep("x", 3)

LongName == <<Run("a", 30), Run(" ", 1), Run("b", 30)>>

AadharA == Rep("1", 12)

AadharB == Rep("2", 12)

\* eleven digits and U+00B2
AadharSup == <<Run("1", 11), Run("U+00B2", 1)>>

IdValues ==
    {JInt(FALSE, Rep(1, 12)),               \* 111111111111
     JStr(AadharA),                         \* "111111111111"
     JStr(AadharB),
     JStr(AadharSup),
     JStr(Rep("1", 11)),                    \* eleven digits
     JStr(<<Run("1", 11), Run("a", 1)>>),   \* twelve characters, one a letter
     JInt(TRUE, Rep(1, 11)),                \* -11111111111: twelve characters
     JNull}

PrimaryElements ==
    {JDict(<<"id">>, <<v>>) : v \in IdValues}
    \cup {JDict(<<"name">>, <<JStr(LongName)>>),
          JStr(ShortName)}

MaxRecords == 2

PrimaryLists ==
    {JList(l) : l \in UNION {[1..n -> PrimaryElements] : n \in 0..MaxRecords}}

PrimaryBodies ==
    PrimaryLists
    \cup {JDict(<<"data">>, <<l>>) : l \in PrimaryLists}
    \cup {JNull,
          JStr(ShortName),
          JDict(<<"id">>, <<JStr(AadharA)>>),
          JDict(<<"status", "data">>, <<JStr(ShortName), JStr(ShortName)>>),
          JDict(<<"data">>, <<JDict(<<"id">>, <<JStr(AadharA)>>)>>)}

PrimaryOutcomes ==
    {Ok(b) : b \in PrimaryBodies}
    \cup {o \in Failures : o.exc \in {"ReadTimeout", "JSONDecodeError", "KeyboardInterrupt"}}
    \cup {o \in Failures : o.status_code = 404}

SecondaryBodies ==
    {JDict(<<"name", "address">>, <<JStr(ShortName), JStr(LongName)>>),
     JList(<<JDict(<<"address">>, <<JStr(LongName)>>)>>),
     JList(<<JStr(ShortName)>>)}

SecondaryOutcomes ==
    {Ok(b) : b \in SecondaryBodies}
    \cup {o \in Failures : o.status_code = 500 \/ o.exc = "KeyboardInterrupt"}

TertiaryBodies ==
    {JDict(<<"members", "head", "count">>,
           <<JList(<<JDict(<<"name">>, <<JStr(LongName)>>), JStr(LongName)>>),
             JDict(<<"address">>, <<JStr(LongName)>>),
             JInt(FALSE, Rep(2, 1))>>),
     JList(<<JStr(ShortName)>>)}

TertiaryOutcomes ==
    {Ok(b) : b \in TertiaryBodies}
    \cup {o \in Failures : o.exc = "json.JSONDecodeError"}

Numbers ==
    {JNull,                                       \* no number parameter
     JStr(<<>>),                                  \* number=
     JStr(Rep("9", 9)),
     JStr(Rep("9", 10)),
     JStr(<<Run("9", 9), Run("a", 1)>>),
     JStr(<<Run("9", 9), Run("U+00B2", 1)>>),     \* ends in SUPERSCRIPT TWO
     JStr(Rep("U+0663", 10))}                     \* ARABIC-INDIC DIGIT THREE

---------------------------------------------------------------------------
(* The upstream client on its own: one call of safe_api_call *)

ErrorMessages ==
    {"Failed to fetch mobile information",
     "Failed to fetch Aadhaar information",
     "Failed to fetch family information"}

Urls ==
    {Url(MOBILE_INFO_API_BASE, Rep("9", 10)),
     Url(AADHAR_INFO_API_BASE, AadharA),
     Url(AADHAR_FAMILY_API_BASE, AadharA)}

CallInit ==
    /\ url \in Urls
    /\ error_message \in ErrorMessages
    /\ outcome \in Failures \cup {Ok(b) : b \in SecondaryBodies \cup {JNull}}
    /\ ret = Returned(JNull, JNull)
    /\ cpc = "call"
    /\ WrapIdle /\ HandlerIdle

Call ==
    /\ cpc = "call"
    /\ ret' = safe_api_call(url, error_message, outcome)
    /\ cpc' = "done"
    /\ UNCHANGED <<url, error_message, outcome, wvars, hvars>>

CallNext == Call

SpecCall == CallInit /\ [][CallNext]_vars

---------------------------------------------------------------------------
(* One request to /get_details *)

Init ==
    /\ pc = "start"
    /\ number \in Numbers
    /\ all_results = JDict(<<>>, <<>>)
    /\ found_aadhar_numbers = {}
    /\ aadhar_order = <<>>
    /\ todo = <<>>
    /\ calls = <<>>
    /\ response = NoResponse
    /\ WrapIdle /\ CallIdle

\* lines 72-82
Validate ==
    /\ pc = "start"
    /\ IF ValidationError(number) # JNull
       THEN /\ response' = [status |-> 400,
                            body |-> JDict(<<"error">>, <<ValidationError(number)>>)]
            /\ pc' = "done"
       ELSE /\ pc' = "primary"
            /\ UNCHANGED response
    /\ UNCHANGED <<number, all_results, found_aadhar_numbers, aadhar_order,
                   todo, calls, wvars, cvars>>

\* lines 85-110
PrimaryLookup ==
    /\ pc = "primary"
    /\ \E o \in PrimaryOutcomes :
        LET u == Url(MOBILE_INFO_API_BASE, number.s)
            r == safe_api_call(u, "Failed to fetch mobile information", o)
            data_list == DataList(r.data)
        IN
        /\ calls' = Append(calls, [url |-> u, o |-> o])
        /\ IF r.raised # "none"
           THEN /\ response' = Interrupted
                /\ pc' = "done"
                /\ UNCHANGED <<all_results, found_aadhar_numbers>>
           ELSE IF Truthy(r.error)
           THEN /\ all_results' = DictSet(all_results, "MOBILE_INFO", r.error)
                /\ found_aadhar_numbers' = {}
                /\ pc' = "secondary"
                /\ UNCHANGED response
           ELSE IF ~UsableList(data_list)
           THEN /\ all_results' = DictSet(all_results, "MOBILE_INFO",
                        JDict(<<"warning">>, <<JLit("No data found")>>))
                /\ found_aadhar_numbers' = {}
                /\ pc' = "secondary"
                /\ UNCHANGED response
           ELSE IF AnyRaises(data_list.items)
           THEN /\ response' = Unhandled
                /\ pc' = "done"
                /\ UNCHANGED <<all_results, found_aadhar_numbers>>
           ELSE /\ all_results' = DictSet(all_results, "MOBILE_INFO",
                        JList(FormatAll(data_list.items)))
                /\ found_aadhar_numbers' = ExtractAadhar(data_list.items)
                /\ pc' = "secondary"
                /\ UNCHANGED response
    /\ aadhar_order' \in Orders(found_aadhar_numbers')
    /\ UNCHANGED <<number, todo, wvars, cvars>>

\* lines 113-114 and 137-138
SecondaryStart ==
    /\ pc = "secondary"
    /\ all_results' = DictSet(all_results, "AADHAAR_INFO",
                              AadhaarSection(found_aadhar_numbers))
    /\ todo' = aadhar_order
    /\ pc' = IF found_aadhar_numbers # {} THEN "secondary_loop" ELSE "tertiary"
    /\ UNCHANGED <<number, found_aadhar_numbers, aadhar_order, calls, response,
                   wvars, cvars>>

\* lines 115-136, one turn of the loop
SecondaryCall ==
    /\ pc = "secondary_loop"
    /\ \E o \in SecondaryOutcomes :
        LET aadhar_num == Head(todo)
            u == Url(AADHAR_INFO_API_BASE, aadhar_num)
            r == safe_api_call(u, "Failed to fetch Aadhaar information", o)
        IN
        /\ calls' = Append(calls, [url |-> u, o |-> o])
        /\ IF r.raised # "none"
           THEN /\ response' = Interrupted
                /\ pc' = "done"
                /\ UNCHANGED <<all_results, todo>>
           ELSE IF ~Truthy(r.error) /\ PersonalRaises(r.data)
           THEN /\ response' = Unhandled
                /\ pc' = "done"
                /\ UNCHANGED <<all_results, todo>>
           ELSE /\ all_results' = SectionAppend(all_results, "AADHAAR_INFO",
                                                AadhaarEntry(aadhar_num, r))
                /\ todo' = Tail(todo)
                /\ pc' = IF Tail(todo) = <<>> THEN "tertiary" ELSE "secondary_loop"
                /\ UNCHANGED response
    /\ UNCHANGED <<number, found_aadhar_numbers, aadhar_order, wvars, cvars>>

\* lines 141-142 and 169-170
TertiaryStart ==
    /\ pc = "tertiary"
    /\ all_results' = DictSet(all_results, "FAMILY_INFO",
                              FamilySection(found_aadhar_numbers))
    /\ todo' = aadhar_order
    /\ pc' = IF found_aadhar_numbers # {} THEN "tertiary_loop" ELSE "respond"
    /\ UNCHANGED <<number, found_aadhar_numbers, aadhar_order, calls, response,
                   wvars, cvars>>

\* lines 143-168, one turn of the loop
TertiaryCall ==
    /\ pc = "tertiary_loop"
    /\ \E o \in TertiaryOutcomes :
        LET aadhar_num == Head(todo)
            u == Url(AADHAR_FAMILY_API_BASE, aadhar_num)
            r == safe_api_call(u, "Failed to fetch family information", o)
        IN
        /\ calls' = Append(calls, [url |-> u, o |-> o])
        /\ IF r.raised # "none"
           THEN /\ response' = Interrupted
                /\ pc' = "done"
                /\ UNCHANGED <<all_results, todo>>
           ELSE /\ all_results' = SectionAppend(all_results, "FAMILY_INFO",
                                                FamilyEntry(aadhar_num, r))
                /\ todo' = Tail(todo)
                /\ pc' = IF Tail(todo) = <<>> THEN "respond" ELSE "tertiary_loop"
                /\ UNCHANGED response
    /\ UNCHANGED <<number, found_aadhar_numbers, aadhar_order, wvars, cvars>>

\* line 172
Respond ==
    /\ pc = "respond"
    /\ response' = [status |-> 200, body |-> all_results]
    /\ pc' = "done"
    /\ UNCHANGED <<number, all_results, found_aadhar_numbers, aadhar_order,
                   todo, calls, wvars, cvars>>

Next ==
    \/ Validate
    \/ PrimaryLookup
    \/ SecondaryStart
    \/ SecondaryCall
    \/ TertiaryStart
    \/ TertiaryCall
    \/ Respond

Spec == Init /\ [][Next]_vars

---------------------------------------------------------------------------
(* Properties of one call of safe_api_call *)

Unexpected == "An unexpected error occurred"

\* C10, as the code has it: safe_api_call returns (body, None) or
\* (None, {"error": message}), unless the call is cut short by an exception
\* that is no Exception (KeyboardInterrupt, SystemExit), which leaves
\* safe_api_call uncaught.  The message is fixed by the cause and the
\* caller's generic text: timeout, connection failure, status 404 and
\* status 422 have their own text; any other status and any other failure of
\* the request library give the caller's generic text; a body that is not
\* JSON gives the generic text where the library raises its own
\* JSONDecodeError for it and the "unexpected" text where the json module's
\* JSONDecodeError comes through; every other Exception gives the
\* "unexpected" text.  The message is never built from the URL or the
\* status code.
C10_ErrorMapping ==
    cpc = "done" =>
        IF outcome.cause = "ok"
        THEN ret = Returned(outcome.body, JNull)
        ELSE IF outcome.exc \in {"KeyboardInterrupt", "SystemExit"}
        THEN /\ ret.raised = outcome.exc
             /\ ret.data = JNull
             /\ ret.error = JNull
        ELSE /\ ret.raised = "none"
             /\ ret.data = JNull
             /\ ret.error.t = "dict"
             /\ ret.error.keys = <<"error">>
             /\ LET message == Get(ret.error, "error").lit IN
                CASE outcome.cause = "timeout" ->
                        message = "Request timeout - please try again"
                  [] outcome.cause = "connection" ->
                        message = "Connection failed - service unavailable"
                  [] outcome.cause = "http_status" ->
                        message = (IF outcome.status_code = 404 THEN "Data not found"
                                   ELSE IF outcome.status_code = 422
                                        THEN "Invalid input provided"
                                        ELSE error_message)
                  [] outcome.cause = "request_failure" ->
                        message = error_message
                  [] outcome.cause = "malformed_json" ->
                        message = (IF outcome.exc = "JSONDecodeError"
                                   THEN error_message
                                   ELSE Unexpected)
                  [] OTHER ->
                        message = Unexpected

\* a body that is not JSON, raised as the request library's JSONDecodeError,
\* has come back as the caller's generic text
C10_Witness ==
    /\ cpc = "done"
    /\ outcome.cause = "malformed_json"
    /\ outcome.exc = "JSONDecodeError"
    /\ ret.raised = "none"
    /\ ret.data = JNull
    /\ Get(ret.error, "error").lit = error_message

\* C10 as claimed: every call returns, with (body, None) or
\* (None, {"error": message}); timeout, connection failure, status 404,
\* status 422 and any other status have their own text, and anything else,
\* a body that is not JSON included, gives the "unexpected" text.
C10_Original ==
    cpc = "done" =>
        /\ ret.raised = "none"
        /\ IF outcome.cause = "ok"
           THEN ret = Returned(outcome.body, JNull)
           ELSE /\ ret.data = JNull
                /\ ret.error.t = "dict"
                /\ ret.error.keys = <<"error">>
                /\ LET message == Get(ret.error, "error").lit IN
                   CASE outcome.cause = "timeout" ->
                           message = "Request timeout - please try again"
                     [] outcome.cause = "connection" ->
                           message = "Connection failed - service unavailable"
                     [] outcome.cause = "http_status" ->
                           message = (IF outcome.status_code = 404
                                      THEN "Data not found"
                                      ELSE IF outcome.status_code = 422
                                           THEN "Invalid input provided"
                                           ELSE error_message)
                     [] OTHER ->
                           message = Unexpected

---------------------------------------------------------------------------
(* Properties of one request *)

\* the claims' "all decimal digits", read at its widest: the decimal digits
\* of any script (what str.isdecimal() accepts)
AllDecimal(s) ==
    s # <<>> /\ \A i \in 1..Len(s) : s[i].c \in AsciiDigits \cup OtherDecimalDigits

Finished == pc = "done"

Answered200 == pc = "done" /\ response.status = 200

PrimaryCall == calls[1]

Failed(call) == call.o.exc # "none"

\* the call made for identifier a against the endpoint base
CallFor(base, a) ==
    calls[CHOOSE i \in 1..Len(calls) : calls[i].url = Url(base, a)]

\* C1: once the number is present, all decimal digits and at least 10 long,
\* the request ends with status 200 and a Result Document, whatever the
\* upstream calls did and whatever shape their answers had (runs cut short
\* by an interrupt of the process are left aside).
C1_Always200 ==
    (Finished /\ number.t = "str" /\ AllDecimal(number.s)
        /\ StrLen(number.s) >= 10
        /\ \A i \in 1..Len(calls) : calls[i].o.cause # "interrupt") =>
        /\ response.status = 200
        /\ response.body.t = "dict"
        /\ response.body.keys = <<"MOBILE_INFO", "AADHAAR_INFO", "FAMILY_INFO">>

TaggedWith(entry, a) ==
    /\ entry.t = "dict"
    /\ HasKey(entry, "aadhaar_number")
    /\ Get(entry, "aadhaar_number") = JStr(a)

OneEntryEach(section, base, found, success_key) ==
    /\ section.t = "list"
    /\ Len(section.items) = Cardinality(found)
    /\ \A a \in found :
        /\ Cardinality({i \in 1..Len(section.items) :
                            TaggedWith(section.items[i], a)}) = 1
        /\ LET entry == section.items[CHOOSE i \in 1..Len(section.items) :
                                          TaggedWith(section.items[i], a)]
           IN  /\ HasKey(entry, "error") <=> Failed(CallFor(base, a))
               /\ HasKey(entry, success_key) <=> ~Failed(CallFor(base, a))

\* C2: in the response, the secondary and the tertiary section each hold
\* exactly one entry per identifier found, tagged with it under
\* aadhaar_number; the entry is an error entry exactly when that
\* identifier's own call in that tier failed, and a details /
\* family_details entry otherwise, whatever the other calls did.
C2_PerIdentifier ==
    (Answered200 /\ found_aadhar_numbers # {}) =>
        /\ OneEntryEach(Get(response.body, "AADHAAR_INFO"), AADHAR_INFO_API_BASE,
                        found_aadhar_numbers, "details")
        /\ OneEntryEach(Get(response.body, "FAMILY_INFO"), AADHAR_FAMILY_API_BASE,
                        found_aadhar_numbers, "family_details")

C2_Witness ==
    /\ Answered200
    /\ found_aadhar_numbers = {AadharA, AadharB}
    /\ Failed(CallFor(AADHAR_INFO_API_BASE, AadharA))
    /\ ~Failed(CallFor(AADHAR_INFO_API_BASE, AadharB))
    /\ ~Failed(CallFor(AADHAR_FAMILY_API_BASE, AadharA))
    /\ Failed(CallFor(AADHAR_FAMILY_API_BASE, AadharB))

\* C3: in the response, AADHAAR_INFO and FAMILY_INFO are the status markers
\* exactly when no identifier was found, and sequences exactly when one was;
\* neither is ever an empty sequence.
C3_SectionShape ==
    Answered200 =>
        LET aadhaar == Get(response.body, "AADHAAR_INFO")
            family == Get(response.body, "FAMILY_INFO")
        IN  /\ (found_aadhar_numbers = {}) <=>
                   aadhaar = JDict(<<"status">>,
                                   <<JLit("No valid Aadhaar numbers found")>>)
            /\ (found_aadhar_numbers = {}) <=>
                   family = JDict(<<"status">>,
                                  <<JLit("No family info available")>>)
            /\ (found_aadhar_numbers # {}) <=> aadhaar.t = "list"
            /\ (found_aadhar_numbers # {}) <=> family.t = "list"
            /\ aadhaar # JList(<<>>)
            /\ family # JList(<<>>)

C3_Witness ==
    /\ Answered200
    /\ Failed(PrimaryCall)
    /\ Get(response.body, "AADHAAR_INFO").t = "dict"
    /\ Get(response.body, "FAMILY_INFO").t = "dict"

\* C4: no or an empty number gives 400 "Mobile number is required"; a number
\* that is not all decimal digits or is shorter than 10 gives 400 "Invalid
\* mobile number format"; both before any upstream call; every other number
\* goes on to the primary lookup.
C4_Validation ==
    pc # "start" =>
        IF number.t = "null" \/ number.s = <<>>
        THEN /\ response = [status |-> 400,
                            body |-> ErrorObject("Mobile number is required")]
             /\ calls = <<>>
        ELSE IF ~AllDecimal(number.s) \/ StrLen(number.s) < 10
        THEN /\ response = [status |-> 400,
                            body |-> ErrorObject("Invalid mobile number format")]
             /\ calls = <<>>
        ELSE /\ response.status # 400
             /\ (pc = "primary" \/ calls # <<>>)

\* the sequence of records a primary answer carries, None when it has none
RecordSequence(body) ==
    IF body.t = "list" THEN body
    ELSE IF body.t = "dict" /\ HasKey(body, "data") /\ Get(body, "data").t = "list"
         THEN Get(body, "data")
         ELSE JNull

PrimaryRecordsRead ==
    /\ HasKey(all_results, "MOBILE_INFO")
    /\ ~Failed(PrimaryCall)
    /\ Get(all_results, "MOBILE_INFO").t = "list"

\* C5: the identifier set is exactly the string forms of the id fields whose
\* string form is 12 characters long and all decimal digits, integers and
\* strings alike, each identifier once.
C5_IdentifierSet ==
    PrimaryRecordsRead =>
        LET records == RecordSequence(PrimaryCall.o.body).items IN
        found_aadhar_numbers =
            {StrOf(Get(records[i], "id")) : i \in
                {j \in 1..Len(records) :
                    /\ HasKey(records[j], "id")
                    /\ Get(records[j], "id").t \in {"int", "str"}
                    /\ StrLen(StrOf(Get(records[j], "id"))) = 12
                    /\ AllDecimal(StrOf(Get(records[j], "id")))}}

NoDataWarning == JDict(<<"warning">>, <<JLit("No data found")>>)

\* C8, as the code has it: when the primary lookup succeeds with a
\* non-empty sequence, or a mapping whose data field is one, MOBILE_INFO is
\* that sequence with format_entry applied to each record; the warning
\* marker is used when the answer carries no sequence or an empty one.
C8_PrimarySection ==
    (HasKey(all_results, "MOBILE_INFO") /\ ~Failed(PrimaryCall)) =>
        LET records == RecordSequence(PrimaryCall.o.body) IN
        Get(all_results, "MOBILE_INFO") =
            IF records.t = "list" /\ records.items # <<>>
            THEN JList(FormatAll(records.items))
            ELSE NoDataWarning

C8_Witness ==
    /\ HasKey(all_results, "MOBILE_INFO")
    /\ ~Failed(PrimaryCall)
    /\ PrimaryCall.o.body.t = "dict"
    /\ Len(RecordSequence(PrimaryCall.o.body).items) = 2
    /\ Get(all_results, "MOBILE_INFO").t = "list"
    /\ Get(all_results, "MOBILE_INFO") # RecordSequence(PrimaryCall.o.body)

\* C8 as claimed: every sequence, the empty one included, is formatted into
\* MOBILE_INFO, and the warning marker is used only when there is no
\* sequence.
C8_Original ==
    (HasKey(all_results, "MOBILE_INFO") /\ ~Failed(PrimaryCall)) =>
        LET records == RecordSequence(PrimaryCall.o.body) IN
        Get(all_results, "MOBILE_INFO") =
            IF records.t = "list"
            THEN JList(FormatAll(records.items))
            ELSE NoDataWarning

====
